---- MODULE Spec2Model ----
(***************************************************************************)
(* Model of custom-phone-agent.py: the session registry STREAMS_SETTINGS,  *)
(* the call_custom endpoint and the media_stream relay with its two pump   *)
(* tasks (twilio_to_openai, openai_to_twilio), followed by                 *)
(* summarize_conversation and send_summary_email.                          *)
(*                                                                         *)
(* Text is a sequence of one-character strings, base64 text a sequence of  *)
(* base64 digit values (0..63) and PAD for '='.                            *)
(***************************************************************************)
EXTENDS Integers, Sequences, FiniteSets, TLC

\* ---------------------------------------------------------------- bounds
\* Total number of frames the two pumps of all connections are handed in
\* one behaviour.
MaxEvents == 3

\* ------------------------------------------------------------ data sets
Conns == {"c1", "c2"}
SessionIds == {"s1", "s2"}

\* the value that stands for '='; larger values are characters outside
\* the base64 alphabet
PAD == 64

\* The data a peer sends is fixed by its position in the stream, so that
\* two frames of one kind always differ from their neighbours.
\* audio of the callee: "QUI=", "QQ=="
Audio == << <<16, 20, 8, PAD>>, <<16, 16, PAD, PAD>> >>
\* audio of the model in canonical base64: "QQ==", "QUI="
Speech == << <<16, 16, PAD, PAD>>, <<16, 20, 8, PAD>> >>
\* other deltas: "" and "QUJ=" (decodes like "QUI=", non-zero trailing bits)
OddDeltas == { <<>>, <<16, 20, 9, PAD>> }
\* transcribed utterances: "Hi", " "
Utterances == << <<"H", "i">>, <<" ">> >>
StreamSids == << "MZ1", "MZ2" >>
Nth(seq, n) == seq[(n % Len(seq)) + 1]
\* results of the chat completion, already stripped
SummarySet == {"summary-a"}

\* the request bodies of call_custom, in the order they are posted
Requests == << [system_message |-> "Be friendly", voice |-> "alloy", email |-> "a@example.com"],
               [system_message |-> "Be brief", voice |-> "echo", email |-> "b@example.com"] >>

\* Python None for the settings local and for stream_sid
NoSettings == [system_message |-> "None", voice |-> "None", email |-> "None"]
NoSid == "None"

EMPTY_PLACEHOLDER == "No conversation content to summarize."
FAILURE_PLACEHOLDER == "Sorry, I couldn't generate a summary."
NoSummary == "unset"

\* ------------------------------------------------------- pure functions
\* binascii.a2b_base64 in its default (non strict) mode, as called by
\* base64.b64decode: characters outside the alphabet are skipped, a
\* complete pad sequence ends the parse, a dangling quad is an error.
RECURSIVE A2B(_, _, _, _, _, _)
A2B(s, i, quad, left, pads, out) ==
    IF i > Len(s) THEN [ok |-> quad = 0, bytes |-> out]
    ELSE LET ch == s[i] IN
         IF ch = PAD
         THEN IF quad >= 2 /\ quad + pads + 1 >= 4
              THEN [ok |-> TRUE, bytes |-> out]
              ELSE A2B(s, i + 1, quad, left, IF quad >= 2 THEN pads + 1 ELSE pads, out)
         ELSE IF ch > PAD
         THEN A2B(s, i + 1, quad, left, pads, out)
         ELSE CASE quad = 0 -> A2B(s, i + 1, 1, ch, 0, out)
                [] quad = 1 -> A2B(s, i + 1, 2, ch % 16, 0, Append(out, left * 4 + ch \div 16))
                [] quad = 2 -> A2B(s, i + 1, 3, ch % 4, 0, Append(out, left * 16 + ch \div 4))
                [] quad = 3 -> A2B(s, i + 1, 0, 0, 0, Append(out, left * 64 + ch))

B64Decode(s) == A2B(s, 1, 0, 0, 0, <<>>)

\* (mutant) an encoder that leaves the '=' padding out
RECURSIVE B64EncodeNoPad(_)
B64EncodeNoPad(b) ==
    IF Len(b) = 0 THEN <<>>
    ELSE IF Len(b) = 1 THEN << b[1] \div 4, (b[1] % 4) * 16 >>
    ELSE IF Len(b) = 2
    THEN << b[1] \div 4, (b[1] % 4) * 16 + b[2] \div 16, (b[2] % 16) * 4 >>
    ELSE << b[1] \div 4, (b[1] % 4) * 16 + b[2] \div 16,
            (b[2] % 16) * 4 + b[3] \div 64, b[3] % 64 >>
         \o B64EncodeNoPad(SubSeq(b, 4, Len(b)))

\* base64.b64encode: three bytes to four digits, '=' padding at the end.
RECURSIVE B64Encode(_)
B64Encode(b) ==
    IF Len(b) = 0 THEN <<>>
    ELSE IF Len(b) = 1 THEN << b[1] \div 4, (b[1] % 4) * 16, PAD, PAD >>
    ELSE IF Len(b) = 2
    THEN << b[1] \div 4, (b[1] % 4) * 16 + b[2] \div 16, (b[2] % 16) * 4, PAD >>
    ELSE << b[1] \div 4, (b[1] % 4) * 16 + b[2] \div 16,
            (b[2] % 16) * 4 + b[3] \div 64, b[3] % 64 >>
         \o B64Encode(SubSeq(b, 4, Len(b)))

\* (mutant) the user's utterance filed under the other speaker
UserEntryMislabelled(text) == <<"a", "s", "s", "i", "s", "t", "a", "n", "t", ":", " ">> \o text

\* f"user: {text}" and f"assistant: {text}"
UserEntry(text) == <<"u", "s", "e", "r", ":", " ">> \o text
AssistantEntry(text) == <<"a", "s", "s", "i", "s", "t", "a", "n", "t", ":", " ">> \o text

\* "\n".join(transcript)
RECURSIVE Join(_)
Join(entries) ==
    IF Len(entries) = 0 THEN <<>>
    ELSE IF Len(entries) = 1 THEN entries[1]
    ELSE entries[1] \o <<"\n">> \o Join(Tail(entries))

Whitespace == {" ", "\n", "\t", "\r"}

\* str.strip()
RECURSIVE LStrip(_)
LStrip(s) == IF Len(s) > 0 /\ s[1] \in Whitespace THEN LStrip(Tail(s)) ELSE s
RECURSIVE RStrip(_)
RStrip(s) == IF Len(s) > 0 /\ s[Len(s)] \in Whitespace
             THEN RStrip(SubSeq(s, 1, Len(s) - 1)) ELSE s
Strip(s) == RStrip(LStrip(s))

\* ------------------------------------------------------------ messages
\* frames the telephony side delivers: event is "start", "media", "mark"
\* (any other event), "bad" (a frame json.loads or the key lookups reject)
\* or "close" (the end of ws.iter_text()).
TwilioFrame(ev, s, p) == [event |-> ev, streamSid |-> s, payload |-> p]
IsStart(f) == f.event = "start"
IsMedia(f) == f.event = "media"
TwilioFrames(log) ==
    { TwilioFrame("start", Nth(StreamSids, Len(SelectSeq(log, IsStart))), <<>>),
      TwilioFrame("media", NoSid, Nth(Audio, Len(SelectSeq(log, IsMedia)))) }
    \cup { TwilioFrame(ev, NoSid, <<>>) : ev \in {"mark", "bad", "close"} }

\* frames the model delivers: type is one of the three consumed types,
\* "other", "bad" (a frame that raises in the loop body or a transport
\* error) or "close" (the end of the iteration over openai_ws).
T_USER == "conversation.item.input_audio_transcription.completed"
T_ASSISTANT == "response.audio_transcript.done"
T_DELTA == "response.audio.delta"
ModelFrame(ty, tx, d) == [type |-> ty, transcript |-> tx, delta |-> d]
IsCompletion(f) == f.type \in {T_USER, T_ASSISTANT}
IsDelta(f) == f.type = T_DELTA /\ f.delta # <<>>
ModelFrames(log) ==
    { ModelFrame(ty, Nth(Utterances, Len(SelectSeq(log, IsCompletion))), <<>>) : ty \in {T_USER, T_ASSISTANT} }
    \cup { ModelFrame(T_DELTA, <<>>, d) : d \in OddDeltas \cup {Nth(Speech, Len(SelectSeq(log, IsDelta)))} }
    \cup { ModelFrame(ty, <<>>, <<>>) : ty \in {"other", "bad", "close"} }

\* messages the relay sends to the model socket
SessionUpdate(settings) ==
    [type |-> "session.update", voice |-> settings.voice,
     instructions |-> settings.system_message, audio |-> <<>>]
ItemCreate == [type |-> "conversation.item.create", voice |-> "", instructions |-> "", audio |-> <<>>]
ResponseCreate == [type |-> "response.create", voice |-> "", instructions |-> "", audio |-> <<>>]
AudioAppend(p) == [type |-> "input_audio_buffer.append", voice |-> "", instructions |-> "", audio |-> p]

\* frame the relay sends to the telephony socket
MediaOut(s, p) == [event |-> "media", streamSid |-> s, payload |-> p]

\* ---------------------------------------------------------------- state
VARIABLES
    registry,        \* STREAMS_SETTINGS: session id -> settings, NoSettings when absent
    pc,              \* position of each media_stream invocation
    sid,             \* its session_id path parameter
    settings,        \* its settings local
    wsState,         \* the telephony socket ws: "none", "accepted", "closed"
    openaiWs,        \* the model socket openai_ws: "none", "open", "closed"
    transcript,      \* its transcript list
    stream_sid,      \* its stream_sid local
    t1,              \* task twilio_to_openai
    t2,              \* task openai_to_twilio
    twilioLog,       \* frames ws.iter_text() has handed out, in arrival order
    modelLog,        \* frames the iteration over openai_ws has handed out, in arrival order
    openaiSent,      \* messages sent on openai_ws, in order
    twilioSent,      \* frames sent on ws, in order
    sumCalls,        \* calls of summarize_conversation
    sumInput,        \* the conv argument of the last call
    llmResult,       \* outcome of openai.chat.completions.create: "none", "ok", "raised"
    summary,         \* the summary local
    notifyLog,       \* calls of send_summary_email, in order
    closeRaised      \* whether openai_ws.close() raised

sessVars == <<pc, sid, settings, wsState, openaiWs>>
pumpVars == <<transcript, stream_sid, t1, t2, openaiSent, twilioSent>>
envVars == <<twilioLog, modelLog>>
postVars == <<sumCalls, sumInput, llmResult, summary, notifyLog, closeRaised>>
vars == <<registry, sessVars, pumpVars, envVars, postVars>>

\* (mutant) a pump that ended on an error does not count as ended
StoppedCleanly(t) == t \in {"closed", "cancelled"}

\* task states: a task is "idle" before create_task, "running" in its
\* loop, "cancelling" between task.cancel() and the delivery of the
\* CancelledError, and then stopped for one of three reasons.
Stopped(t) == t \in {"closed", "failed", "cancelled"}

SumLen(f) == LET RECURSIVE S(_)
                 S(cs) == IF cs = {} THEN 0
                          ELSE LET c == CHOOSE x \in cs : TRUE IN Len(f[c]) + S(cs \ {c})
             IN S(Conns)

Delivered == SumLen(twilioLog) + SumLen(modelLog)

TwilioPeerClosed(c) == \E i \in 1..Len(twilioLog[c]) : twilioLog[c][i].event = "close"
ModelPeerClosed(c) == \E i \in 1..Len(modelLog[c]) : modelLog[c][i].type = "close"

\* the state of the process after import: an empty registry and no
\* invocation of media_stream; callers is the set of connections that will
\* be made to the relay endpoint
InitWith(callers) ==
    /\ registry = [s \in SessionIds |-> NoSettings]
    /\ pc = [c \in Conns |-> IF c \in callers THEN "idle" ELSE "unused"]
    /\ sid = [c \in Conns |-> "None"]
    /\ settings = [c \in Conns |-> NoSettings]
    /\ wsState = [c \in Conns |-> "none"]
    /\ openaiWs = [c \in Conns |-> "none"]
    /\ transcript = [c \in Conns |-> <<>>]
    /\ stream_sid = [c \in Conns |-> NoSid]
    /\ t1 = [c \in Conns |-> "idle"]
    /\ t2 = [c \in Conns |-> "idle"]
    /\ twilioLog = [c \in Conns |-> <<>>]
    /\ modelLog = [c \in Conns |-> <<>>]
    /\ openaiSent = [c \in Conns |-> <<>>]
    /\ twilioSent = [c \in Conns |-> <<>>]
    /\ sumCalls = [c \in Conns |-> 0]
    /\ sumInput = [c \in Conns |-> <<>>]
    /\ llmResult = [c \in Conns |-> "none"]
    /\ summary = [c \in Conns |-> NoSummary]
    /\ notifyLog = [c \in Conns |-> <<>>]
    /\ closeRaised = [c \in Conns |-> FALSE]

Init == InitWith(Conns)

\* ------------------------------------------------------------- registry
\* uuid.uuid4().hex: an identifier no earlier request was given (the
\* identifiers are interchangeable and handed out in a fixed order)
Registered == { s \in SessionIds : registry[s] # NoSettings }
FreshIds == IF "s1" \notin Registered THEN {"s1"} ELSE SessionIds \ Registered

\* (mutant) a lookup that falls back to the first request's settings
LookupOrDefault(s) == IF registry[s] = NoSettings THEN Requests[1] ELSE registry[s]

\* (mutant) a lookup that returns the settings of the latest request
LookupLatest(s) ==
    IF registry[s] = NoSettings THEN NoSettings
    ELSE LET stored == { r \in SessionIds : registry[r] # NoSettings }
         IN registry[IF "s2" \in stored THEN "s2" ELSE "s1"]

\* STREAMS_SETTINGS.get(session_id)
Lookup(s) == registry[s]

\* POST /call_custom (a request only matters to the connections that
\* are still to look the registry up)
call_custom(req) ==
    /\ \E c \in Conns : pc[c] = "idle"
    /\ Cardinality(Registered) < Len(Requests)
    /\ req = Requests[Cardinality(Registered) + 1]
    /\ \E s \in FreshIds :
          registry' = [registry EXCEPT ![s] = [system_message |-> req.system_message,
                                              voice |-> req.voice,
                                              email |-> req.email]]
    /\ UNCHANGED <<sessVars, pumpVars, envVars, postVars>>

\* ---------------------------------------------------------- media_stream
\* the invocations of media_stream are named in the order they start
Earlier(c) == IF c = "c2" THEN {"c1"} ELSE {}

\* lookup of the settings, then ws.close() or ws.accept()
Connect(c, s) ==
    /\ pc[c] = "idle"
    /\ \A d \in Earlier(c) : pc[d] # "idle"
    /\ sid' = [sid EXCEPT ![c] = s]
    /\ LET found == Lookup(s) IN
       IF found = NoSettings
       THEN /\ wsState' = [wsState EXCEPT ![c] = "closed"]
            /\ pc' = [pc EXCEPT ![c] = "refused"]
            /\ UNCHANGED settings
       ELSE /\ settings' = [settings EXCEPT ![c] = found]
            /\ wsState' = [wsState EXCEPT ![c] = "accepted"]
            /\ pc' = [pc EXCEPT ![c] = "handshake"]
    /\ UNCHANGED <<registry, openaiWs, pumpVars, envVars, postVars>>

\* (mutant) the except branch of websockets.connect without its return
HandshakeNoReturn(c) ==
    /\ pc[c] = "handshake"
    /\ \E ok \in BOOLEAN :
          /\ IF ok
             THEN /\ openaiWs' = [openaiWs EXCEPT ![c] = "open"]
                  /\ UNCHANGED wsState
             ELSE /\ wsState' = [wsState EXCEPT ![c] = "closed"]
                  /\ UNCHANGED openaiWs
          /\ transcript' = [transcript EXCEPT ![c] = <<>>]
          /\ stream_sid' = [stream_sid EXCEPT ![c] = NoSid]
          /\ pc' = [pc EXCEPT ![c] = "init"]
    /\ UNCHANGED <<registry, sid, settings, t1, t2, openaiSent, twilioSent, envVars, postVars>>

\* websockets.connect(...) and the two locals created after it
Handshake(c) ==
    /\ pc[c] = "handshake"
    /\ \E ok \in BOOLEAN :
          IF ok
          THEN /\ openaiWs' = [openaiWs EXCEPT ![c] = "open"]
               /\ transcript' = [transcript EXCEPT ![c] = <<>>]
               /\ stream_sid' = [stream_sid EXCEPT ![c] = NoSid]
               /\ pc' = [pc EXCEPT ![c] = "init"]
               /\ UNCHANGED wsState
          ELSE /\ wsState' = [wsState EXCEPT ![c] = "closed"]
               /\ pc' = [pc EXCEPT ![c] = "hs_failed"]
               /\ UNCHANGED <<openaiWs, transcript, stream_sid>>
    /\ UNCHANGED <<registry, sid, settings, t1, t2, openaiSent, twilioSent, envVars, postVars>>

\* (mutant) the greeting is sent before the session configuration
InitMessagesSwapped(c) == << ItemCreate, SessionUpdate(settings[c]), ResponseCreate >>

\* the three awaited sends, then create_task twice and the await of
\* asyncio.wait; a send that fails raises out of media_stream, after the
\* sends before it went out
InitMessages(c) == << SessionUpdate(settings[c]), ItemCreate, ResponseCreate >>

InitSession(c) ==
    /\ pc[c] = "init"
    /\ \E sent \in 0..3 :
          /\ openaiSent' = [openaiSent EXCEPT ![c] = @ \o SubSeq(InitMessages(c), 1, sent)]
          /\ IF sent < 3
             THEN /\ pc' = [pc EXCEPT ![c] = "crashed"]
                  /\ UNCHANGED <<t1, t2>>
             ELSE /\ pc' = [pc EXCEPT ![c] = "wait"]
                  /\ t1' = [t1 EXCEPT ![c] = "running"]
                  /\ t2' = [t2 EXCEPT ![c] = "running"]
    /\ UNCHANGED <<registry, sid, settings, wsState, openaiWs, transcript,
                   stream_sid, twilioSent, envVars, postVars>>

\* one iteration of the loop of twilio_to_openai
twilio_to_openai(c, data) ==
    /\ t1[c] = "running"
    /\ Delivered < MaxEvents
    /\ twilioLog' = [twilioLog EXCEPT ![c] = Append(@, data)]
    /\ CASE data.event = "start" ->
              /\ stream_sid' = [stream_sid EXCEPT ![c] = data.streamSid]
              /\ UNCHANGED <<openaiSent, t1>>
         [] data.event = "media" ->
              IF ModelPeerClosed(c)
              THEN /\ t1' = [t1 EXCEPT ![c] = "failed"]
                   /\ UNCHANGED <<openaiSent, stream_sid>>
              ELSE /\ openaiSent' = [openaiSent EXCEPT ![c] = Append(@, AudioAppend(data.payload))]
                   /\ UNCHANGED <<stream_sid, t1>>
         [] data.event = "bad" ->
              /\ t1' = [t1 EXCEPT ![c] = "failed"]
              /\ UNCHANGED <<openaiSent, stream_sid>>
         [] data.event = "close" ->
              /\ t1' = [t1 EXCEPT ![c] = "closed"]
              /\ UNCHANGED <<openaiSent, stream_sid>>
         [] OTHER -> UNCHANGED <<openaiSent, stream_sid, t1>>
    /\ UNCHANGED <<registry, sessVars, transcript, t2, twilioSent, modelLog, postVars>>

\* one iteration of the loop of openai_to_twilio
openai_to_twilio(c, evt) ==
    /\ t2[c] = "running"
    /\ Delivered < MaxEvents
    /\ modelLog' = [modelLog EXCEPT ![c] = Append(@, evt)]
    /\ CASE evt.type = T_USER ->
              /\ transcript' = [transcript EXCEPT ![c] = Append(@, UserEntry(evt.transcript))]
              /\ UNCHANGED <<twilioSent, t2>>
         [] evt.type = T_ASSISTANT ->
              /\ transcript' = [transcript EXCEPT ![c] = Append(@, AssistantEntry(evt.transcript))]
              /\ UNCHANGED <<twilioSent, t2>>
         [] evt.type = T_DELTA /\ evt.delta # <<>> ->
              LET chunk == B64Decode(evt.delta) IN
              IF ~chunk.ok \/ TwilioPeerClosed(c)
              THEN /\ t2' = [t2 EXCEPT ![c] = "failed"]
                   /\ UNCHANGED <<twilioSent, transcript>>
              ELSE /\ twilioSent' = [twilioSent EXCEPT ![c] =
                                        Append(@, MediaOut(stream_sid[c], B64Encode(chunk.bytes)))]
                   /\ UNCHANGED <<transcript, t2>>
         [] evt.type = "bad" ->
              /\ t2' = [t2 EXCEPT ![c] = "failed"]
              /\ UNCHANGED <<twilioSent, transcript>>
         [] evt.type = "close" ->
              /\ t2' = [t2 EXCEPT ![c] = "closed"]
              /\ UNCHANGED <<twilioSent, transcript>>
         [] OTHER -> UNCHANGED <<twilioSent, transcript, t2>>
    /\ UNCHANGED <<registry, sessVars, stream_sid, t1, openaiSent, twilioLog, postVars>>

\* (mutant) the pending task is left running
CancelIgnored(t) == t

\* task.cancel() on a pending task
Cancel(t) == IF t = "running" THEN "cancelling" ELSE t

\* (mutant) return_when=asyncio.ALL_COMPLETED
AllCompleted(a, b) == Stopped(a) /\ Stopped(b)

\* return_when=asyncio.FIRST_COMPLETED
FirstCompleted(a, b) == Stopped(a) \/ Stopped(b)

\* asyncio.wait(..., FIRST_COMPLETED) returns, then the loop over pending
WaitReturn(c) ==
    /\ pc[c] = "wait"
    /\ FirstCompleted(t1[c], t2[c])
    /\ t1' = [t1 EXCEPT ![c] = Cancel(@)]
    /\ t2' = [t2 EXCEPT ![c] = Cancel(@)]
    /\ pc' = [pc EXCEPT ![c] = "closing"]
    /\ UNCHANGED <<registry, sid, settings, wsState, openaiWs, transcript,
                   stream_sid,  openaiSent, twilioSent, envVars, postVars>>

\* the event loop resumes a cancelled task: CancelledError is raised at
\* its await and is not caught by "except Exception"
CancelDelivered(c) ==
    /\ t1[c] = "cancelling" \/ t2[c] = "cancelling"
    /\ \/ /\ t1[c] = "cancelling"
          /\ t1' = [t1 EXCEPT ![c] = "cancelled"]
          /\ UNCHANGED t2
       \/ /\ t2[c] = "cancelling"
          /\ t2' = [t2 EXCEPT ![c] = "cancelled"]
          /\ UNCHANGED t1
    /\ UNCHANGED <<registry, sessVars, transcript, stream_sid,
                   openaiSent, twilioSent, envVars, postVars>>

\* (mutant) the close outside a try: its error ends media_stream
AfterCloseUncaught(raised) == IF raised THEN "crashed" ELSE "summarizing"

\* except Exception: pass -- media_stream goes on to the summary whether
\* or not the close raised
AfterClose(raised) == "summarizing"

\* try: await openai_ws.close() except Exception: pass
\* The connection counts as closed after the attempt, also when it raised.
\* While openai_to_twilio was still reading, the connection is open: the
\* close then waits for the closing handshake, and the event loop delivers
\* the pending cancellation before it resumes media_stream. When
\* openai_to_twilio ended by itself the connection may be gone already and
\* the close may return without suspending.
CloseModel(c) ==
    /\ pc[c] = "closing"
    /\ t2[c] # "cancelling"
    /\ openaiWs' = [openaiWs EXCEPT ![c] = "closed"]
    /\ \E raised \in BOOLEAN :
          /\ closeRaised' = [closeRaised EXCEPT ![c] = raised]
          /\ pc' = [pc EXCEPT ![c] = AfterClose(raised)]
    /\ UNCHANGED <<registry, sid, settings, wsState, pumpVars, envVars,
                   sumCalls, sumInput, llmResult, summary, notifyLog>>

\* (mutant) summarize_conversation without the check for an empty transcript
SummaryOutcomesNoSkip(conv) ==
    { [llm |-> "ok", result |-> s] : s \in SummarySet } \cup { [llm |-> "raised", result |-> "raise"] }

\* summarize_conversation(conv): the returned summary, or "raise"
SummaryOutcomes(conv) ==
    IF Strip(conv) = <<>>
    THEN { [llm |-> "none", result |-> EMPTY_PLACEHOLDER] }
    ELSE { [llm |-> "ok", result |-> s] : s \in SummarySet }
         \cup { [llm |-> "raised", result |-> "raise"] }

\* (mutant) the except branch forgets to assign the placeholder
SummaryOfUnassigned(o) == IF o.result = "raise" THEN NoSummary ELSE o.result

\* try: summary = await summarize_conversation(...) except: the placeholder
SummaryOf(o) == IF o.result = "raise" THEN FAILURE_PLACEHOLDER ELSE o.result

\* (mutant) transcript as one list shared by all invocations
SummarizeShared(c) ==
    /\ pc[c] = "summarizing"
    /\ LET all == IF c = "c1" THEN transcript["c1"] \o transcript["c2"]
                  ELSE transcript["c2"] \o transcript["c1"]
           full_text == Join(all) IN
       /\ sumInput' = [sumInput EXCEPT ![c] = full_text]
       /\ sumCalls' = [sumCalls EXCEPT ![c] = @ + 1]
       /\ \E o \in SummaryOutcomes(full_text) :
             /\ llmResult' = [llmResult EXCEPT ![c] = o.llm]
             /\ summary' = [summary EXCEPT ![c] = SummaryOf(o)]
    /\ pc' = [pc EXCEPT ![c] = "notifying"]
    /\ UNCHANGED <<registry, sid, settings, wsState, openaiWs, pumpVars,
                   envVars, notifyLog, closeRaised>>

\* full_text = "\n".join(transcript) and the try around summarize_conversation
Summarize(c) ==
    /\ pc[c] = "summarizing"
    /\ LET full_text == Join(transcript[c]) IN
       /\ sumInput' = [sumInput EXCEPT ![c] = full_text]
       /\ sumCalls' = [sumCalls EXCEPT ![c] = @ + 1]
       /\ \E o \in SummaryOutcomes(full_text) :
             /\ llmResult' = [llmResult EXCEPT ![c] = o.llm]
             /\ summary' = [summary EXCEPT ![c] = SummaryOf(o)]
    /\ pc' = [pc EXCEPT ![c] = "notifying"]
    /\ UNCHANGED <<registry, sid, settings, wsState, openaiWs, pumpVars,
                   envVars, notifyLog, closeRaised>>

\* send_summary_email(to_email, summary): it returns early when the mail
\* configuration is missing, else the mail is sent or the failure is logged
MailOutcomes == {"noconfig", "sent", "failed"}

\* (mutant) a failed notification is tried again
NotifyRetrying(c) ==
    /\ pc[c] = "notifying"
    /\ \E r \in MailOutcomes :
          /\ notifyLog' = [notifyLog EXCEPT ![c] =
                              Append(@, [to |-> settings[c].email, summary |-> summary[c], result |-> r])]
          /\ pc' = [pc EXCEPT ![c] = IF r = "sent" THEN "done" ELSE "notifying"]
    /\ UNCHANGED <<registry, sid, settings, wsState, openaiWs, pumpVars,
                   envVars, sumCalls, sumInput, llmResult, summary, closeRaised>>

\* the try around send_summary_email, then return
Notify(c) ==
    /\ pc[c] = "notifying"
    /\ \E r \in MailOutcomes :
          notifyLog' = [notifyLog EXCEPT ![c] =
                           Append(@, [to |-> settings[c].email, summary |-> summary[c], result |-> r])]
    /\ pc' = [pc EXCEPT ![c] = "done"]
    /\ UNCHANGED <<registry, sid, settings, wsState, openaiWs, pumpVars,
                   envVars, sumCalls, sumInput, llmResult, summary, closeRaised>>

Next ==
    \/ \E i \in 1..Len(Requests) : call_custom(Requests[i])
    \/ \E c \in Conns, s \in SessionIds : Connect(c, s)
    \/ \E c \in Conns : Handshake(c)
    \/ \E c \in Conns : InitSession(c)
    \/ \E c \in Conns : \E data \in TwilioFrames(twilioLog[c]) : twilio_to_openai(c, data)
    \/ \E c \in Conns : \E evt \in ModelFrames(modelLog[c]) : openai_to_twilio(c, evt)
    \/ \E c \in Conns : WaitReturn(c)
    \/ \E c \in Conns : CancelDelivered(c)
    \/ \E c \in Conns : CloseModel(c)
    \/ \E c \in Conns : Summarize(c)
    \/ \E c \in Conns : Notify(c)

Spec == Init /\ [][Next]_vars

\* behaviours with a single connection to the relay endpoint
InitCall == InitWith({"c1"})
SpecCall == InitCall /\ [][Next]_vars

\* behaviours in which the event loop keeps running what is ready: the
\* main flow of media_stream after a task has ended, and cancelled tasks
FairCall ==
    /\ SpecCall
    /\ \A c \in Conns : /\ WF_vars(WaitReturn(c))
                        /\ WF_vars(CancelDelivered(c))
                        /\ WF_vars(CloseModel(c))
                        /\ WF_vars(Summarize(c))
                        /\ WF_vars(Notify(c))

\* =============================================================== claims
IsPrefix(a, b) == Len(a) <= Len(b) /\ SubSeq(b, 1, Len(a)) = a
Live(c) == pc[c] \in {"init", "wait", "closing", "summarizing", "notifying"}
PassedHandshake(c) == pc[c] \in {"init", "wait", "closing", "summarizing", "notifying", "done", "crashed"}

\* C1: summarization and notification are each attempted at most once per
\* call, and only when both pump tasks have stopped.
C1_OnceAfterPumpsStopped ==
    [][\A c \in Conns :
          /\ sumCalls'[c] <= 1
          /\ Len(notifyLog'[c]) <= 1
          /\ (sumCalls'[c] # sumCalls[c] \/ notifyLog'[c] # notifyLog[c])
                => (Stopped(t1[c]) /\ Stopped(t2[c]))]_vars

\* payloads of the media frames the telephony side delivered, the audio
\* the relay sent to the model, the non-empty deltas the model delivered
\* and the payloads the relay sent to the telephony side
Payloads(seq) == [i \in 1..Len(seq) |-> seq[i].payload]
IsAppend(m) == m.type = "input_audio_buffer.append"
InboundPayloads(c) == Payloads(SelectSeq(twilioLog[c], IsMedia))
AudioSent(c) == LET sent == SelectSeq(openaiSent[c], IsAppend)
                IN [i \in 1..Len(sent) |-> sent[i].audio]
ModelDeltas(c) == LET deltas == SelectSeq(modelLog[c], IsDelta)
                  IN [i \in 1..Len(deltas) |-> deltas[i].delta]
TelephonyPayloads(c) == Payloads(twilioSent[c])

\* canonical base64 text: whole quads of digits, padding only at the end
\* of the last quad, and no bits set beyond the encoded bytes
Canonical(p) ==
    /\ Len(p) % 4 = 0
    /\ \A i \in 1..Len(p) : p[i] <= PAD
    /\ \A i \in 1..Len(p) : p[i] = PAD => i > Len(p) - 2 /\ (i < Len(p) => p[i + 1] = PAD)
    /\ Len(p) > 0 /\ p[Len(p)] = PAD =>
          IF p[Len(p) - 1] = PAD THEN p[Len(p) - 2] % 16 = 0 ELSE p[Len(p) - 1] % 4 = 0

\* C2 (as claimed): per direction the payloads sent are a prefix of the
\* payloads received, unchanged.
C2_ForwardedUnchanged ==
    \A c \in Conns :
       /\ IsPrefix(AudioSent(c), InboundPayloads(c))
       /\ IsPrefix(TelephonyPayloads(c), ModelDeltas(c))

\* C2 (amended): inbound payloads are forwarded unchanged and in order; a
\* payload sent to the telephony side is the canonical base64 text of the
\* bytes of the delta at the same position, so it is the delta itself when
\* the delta is canonical.
C2_ForwardedInOrder ==
    \A c \in Conns :
       /\ IsPrefix(AudioSent(c), InboundPayloads(c))
       /\ Len(TelephonyPayloads(c)) <= Len(ModelDeltas(c))
       /\ \A i \in 1..Len(TelephonyPayloads(c)) :
             LET sent == TelephonyPayloads(c)[i]
                 delta == ModelDeltas(c)[i]
             IN /\ Canonical(sent)
                /\ A2B(sent, 1, 0, 0, 0, <<>>) = A2B(delta, 1, 0, 0, 0, <<>>)
                /\ Canonical(delta) => sent = delta

C2_Witness ==
    \E c \in Conns :
       /\ Len(TelephonyPayloads(c)) = 2
       /\ TelephonyPayloads(c)[1] # TelephonyPayloads(c)[2]
       /\ \E i \in 1..2 : ~Canonical(ModelDeltas(c)[i])
       /\ Len(AudioSent(c)) = 1

\* the rendering of a completion frame and of a list of lines
Speaker(f) == IF f.type = T_USER THEN <<"u", "s", "e", "r">>
              ELSE <<"a", "s", "s", "i", "s", "t", "a", "n", "t">>
Rendered(f) == Speaker(f) \o <<":", " ">> \o f.transcript
Completions(c) == LET done == SelectSeq(modelLog[c], IsCompletion)
                  IN [i \in 1..Len(done) |-> Rendered(done[i])]
Lines(es) == LET RECURSIVE Upto(_)
                 Upto(k) == IF k = 0 THEN <<>>
                            ELSE IF k = 1 THEN es[1]
                            ELSE Upto(k - 1) \o <<"\n">> \o es[k]
             IN Upto(Len(es))

\* C3: the transcript is the rendering of the completion frames received,
\* in arrival order; it only grows at its end; and the text given to
\* summarization is its lines in that order.
C3_TranscriptInArrivalOrder ==
    /\ [](\A c \in Conns :
            /\ transcript[c] = Completions(c)
            /\ sumCalls[c] > 0 => sumInput[c] = Lines(Completions(c)))
    /\ [][\A c \in Conns : IsPrefix(transcript[c], transcript'[c])]_vars

C3_Witness ==
    \E c \in Conns :
       /\ sumCalls[c] = 1
       /\ Len(transcript[c]) = 2
       /\ transcript[c][1][1] # transcript[c][2][1]

\* C4: a connection for a session id that was never registered is closed
\* at once and does nothing else.
C4_UnknownSessionRefused ==
    /\ [](\A c \in Conns :
            /\ (pc[c] \notin {"idle", "unused"} /\ registry[sid[c]] = NoSettings)
                  => pc[c] = "refused"
            /\ pc[c] = "refused" =>
                  /\ wsState[c] = "closed"
                  /\ openaiWs[c] = "none"
                  /\ openaiSent[c] = <<>>
                  /\ t1[c] = "idle" /\ t2[c] = "idle"
                  /\ sumCalls[c] = 0 /\ notifyLog[c] = <<>>)
    /\ [][\A c \in Conns : pc[c] = "refused" => pc'[c] = "refused"]_vars

C4_Witness ==
    \E c \in Conns : pc[c] = "refused" /\ registry[sid[c]] = NoSettings /\ Registered # {}

\* C5: at most one live relay per session identifier.
C5_OneLiveRelayPerSession ==
    \A c, d \in Conns : (c # d /\ Live(c) /\ Live(d)) => sid[c] # sid[d]

\* connections whose lookup of session id s found an entry
Served(s) == { c \in Conns : sid[c] = s /\ pc[c] \notin {"idle", "unused", "refused"} }

\* C6: a registry entry serves one relay connection only, later connections
\* for its session id are refused, and a stored entry never changes.
C6_EntryConsumedOnce ==
    /\ [](\A s \in SessionIds : Cardinality(Served(s)) <= 1)
    /\ [][\A s \in SessionIds : registry[s] # NoSettings => registry'[s] = registry[s]]_vars

\* C7: the session configuration sent to the model and the address of the
\* notification are the ones stored under the connection's session id.
C7_OwnSettingsUsed ==
    \A c \in Conns :
       /\ \A i \in 1..Len(openaiSent[c]) :
             openaiSent[c][i].type = "session.update" =>
                /\ openaiSent[c][i].voice = registry[sid[c]].voice
                /\ openaiSent[c][i].instructions = registry[sid[c]].system_message
       /\ PassedHandshake(c) /\ pc[c] # "init" /\ openaiSent[c] # <<>> =>
             openaiSent[c][1].type = "session.update"
       /\ \A i \in 1..Len(notifyLog[c]) : notifyLog[c][i].to = registry[sid[c]].email

C7_Witness ==
    \E c \in Conns :
       /\ Cardinality(Registered) = 2
       /\ sid[c] = "s1"
       /\ pc[c] = "done"
       /\ Len(notifyLog[c]) = 1
       /\ notifyLog[c][1].to = Requests[1].email
       /\ openaiSent[c][1].voice = Requests[1].voice

\* the telephony socket closed while the model pump was still reading
InboundClosedFirst(c) == pc[c] = "wait" /\ t1[c] = "closed" /\ t2[c] = "running"

\* C8: when the inbound socket closes first, the model socket is
\* eventually closed and the relay reaches DONE, and once the inbound
\* socket has closed no inbound frame is handled or forwarded.
C8_InboundCloseDrains ==
    /\ \A c \in Conns : InboundClosedFirst(c) ~> (pc[c] = "done" /\ openaiWs[c] = "closed")
    /\ [][\A c \in Conns : t1[c] = "closed" =>
             /\ twilioLog'[c] = twilioLog[c]
             /\ openaiSent'[c] = openaiSent[c]
             /\ t1'[c] = "closed"]_vars

C8_Witness ==
    \E c \in Conns : /\ pc[c] = "done" /\ openaiWs[c] = "closed"
                     /\ t1[c] = "closed" /\ t2[c] = "cancelled"
                     /\ Len(AudioSent(c)) >= 1

\* no completion event was received during the call
NoCompletion(c) == \A i \in 1..Len(modelLog[c]) : ~IsCompletion(modelLog[c][i])

\* C9: with an empty transcript the language model is not called, the
\* summary is the fixed placeholder and the notification carries it.
C9_EmptyTranscriptPlaceholder ==
    \A c \in Conns :
       (NoCompletion(c) /\ pc[c] \in {"notifying", "done"}) =>
          /\ llmResult[c] = "none"
          /\ summary[c] = "No conversation content to summarize."
          /\ pc[c] = "done" =>
                /\ Len(notifyLog[c]) = 1
                /\ notifyLog[c][1].to = settings[c].email
                /\ notifyLog[c][1].summary = "No conversation content to summarize."

C9_Witness ==
    \E c \in Conns : /\ pc[c] = "done" /\ NoCompletion(c)
                     /\ Len(modelLog[c]) >= 1 /\ Len(twilioLog[c]) >= 1
                     /\ Len(notifyLog[c]) = 1

\* C10: a failure of the summarization call is caught: the summary is the
\* failure placeholder, the notification is made once with it, and the
\* relay reaches DONE.
C10_SummaryFailureContained ==
    /\ [](\A c \in Conns :
            llmResult[c] = "raised" =>
               /\ transcript[c] # <<>>
               /\ pc[c] \in {"notifying", "done"}
               /\ summary[c] = "Sorry, I couldn't generate a summary."
               /\ pc[c] = "notifying" => notifyLog[c] = <<>>
               /\ pc[c] = "done" =>
                     /\ Len(notifyLog[c]) = 1
                     /\ notifyLog[c][1].summary = "Sorry, I couldn't generate a summary.")
    /\ \A c \in Conns : (llmResult[c] = "raised") ~> (pc[c] = "done")

C10_Witness ==
    \E c \in Conns : llmResult[c] = "raised" /\ pc[c] = "done" /\ Len(notifyLog[c]) = 1

\* the notification adapter did not deliver: it failed or had no configuration
NotifyFailed(c) ==
    \E i \in 1..Len(notifyLog[c]) : notifyLog[c][i].result \in {"failed", "noconfig"}

\* C11: when the notification fails or has no configuration the relay
\* still reaches DONE, the notification is not tried again, and the
\* inbound socket is left as it was.
C11_NotifyFailureContained ==
    /\ [](\A c \in Conns :
            NotifyFailed(c) =>
               /\ pc[c] = "done"
               /\ Len(notifyLog[c]) = 1
               /\ wsState[c] = "accepted")
    /\ [][\A c \in Conns :
             /\ notifyLog'[c] # notifyLog[c] =>
                   /\ pc[c] = "notifying" /\ pc'[c] = "done"
                   /\ wsState'[c] = wsState[c]
             /\ pc[c] = "done" => pc'[c] = "done" /\ wsState'[c] = wsState[c]]_vars
    /\ \A c \in Conns : (pc[c] = "notifying") ~> (pc[c] = "done")

C11_Witness ==
    \E c \in Conns : /\ pc[c] = "done" /\ NotifyFailed(c)
                     /\ notifyLog[c][1].result = "failed"
                     /\ llmResult[c] = "ok"

\* the lookup found settings and no model socket was obtained
HandshakeFailed(c) ==
    /\ pc[c] \notin {"idle", "unused", "refused", "handshake"}
    /\ openaiWs[c] = "none"

\* C12: when the handshake with the model endpoint fails for a registered
\* session id the inbound socket is closed and the relay ends: no message
\* is sent to the model, no pump starts, no frame is read, there is no
\* transcript, and no summarization or notification.
C12_HandshakeFailureTerminal ==
    /\ [](\A c \in Conns :
            HandshakeFailed(c) =>
               /\ pc[c] = "hs_failed"
               /\ registry[sid[c]] # NoSettings
               /\ wsState[c] = "closed"
               /\ openaiSent[c] = <<>> /\ twilioSent[c] = <<>>
               /\ t1[c] = "idle" /\ t2[c] = "idle"
               /\ twilioLog[c] = <<>> /\ modelLog[c] = <<>>
               /\ transcript[c] = <<>> /\ stream_sid[c] = NoSid
               /\ sumCalls[c] = 0 /\ summary[c] = NoSummary /\ notifyLog[c] = <<>>)
    /\ [][\A c \in Conns : pc[c] = "hs_failed" => pc'[c] = "hs_failed"]_vars

C12_Witness ==
    \E c \in Conns : /\ pc[c] = "hs_failed" /\ HandshakeFailed(c)
                     /\ settings[c] = Requests[1]
                     /\ wsState[c] = "closed"

\* the relay has begun the close of the model socket or is past it
Draining(c) == pc[c] \in {"closing", "summarizing", "notifying", "done"}

\* C13: once the close of the model socket has begun both pumps have
\* stopped.
C13_DrainingPumpsStopped ==
    \A c \in Conns : Draining(c) => Stopped(t1[c]) /\ Stopped(t2[c])

\* once the close of the model socket has begun no frame is read or
\* forwarded in either direction
C13_NoForwardingWhileDraining ==
    [][\A c \in Conns :
          Draining(c) =>
             /\ twilioLog'[c] = twilioLog[c] /\ modelLog'[c] = modelLog[c]
             /\ openaiSent'[c] = openaiSent[c] /\ twilioSent'[c] = twilioSent[c]]_vars

\* the pumps of c have been created, or something shows that one has run
PumpsStarted(c) ==
    \/ t1[c] # "idle" \/ t2[c] # "idle"
    \/ twilioLog[c] # <<>> \/ modelLog[c] # <<>>
    \/ AudioSent(c) # <<>> \/ twilioSent[c] # <<>> \/ transcript[c] # <<>>

\* C14: the messages sent to the model begin with the session
\* configuration, the greeting and the response trigger, in this order and
\* once each; the pumps start only after all three were sent, and every
\* later message is an audio append.
C14_InitBeforePumps ==
    \A c \in Conns :
       /\ \A i \in 1..Len(openaiSent[c]) :
             openaiSent[c][i].type =
                CASE i = 1 -> "session.update"
                  [] i = 2 -> "conversation.item.create"
                  [] i = 3 -> "response.create"
                  [] OTHER -> "input_audio_buffer.append"
       /\ PumpsStarted(c) => Len(openaiSent[c]) >= 3
       /\ pc[c] = "crashed" => Len(openaiSent[c]) < 3 /\ ~PumpsStarted(c)

C14_Witness ==
    \E c \in Conns :
       /\ Len(openaiSent[c]) = 5
       /\ openaiSent[c][1] = SessionUpdate(Requests[1])
       /\ openaiSent[c][2] = ItemCreate /\ openaiSent[c][3] = ResponseCreate
       /\ IsAppend(openaiSent[c][4]) /\ IsAppend(openaiSent[c][5])
       /\ Len(modelLog[c]) = 1

\* a pump of c ended in its except branch: a frame that could not be
\* decoded or a transport error
PumpFailed(c) == t1[c] = "failed" \/ t2[c] = "failed"

\* C15: a pump that meets a transport or decode error ends like one whose
\* socket closed: the relay cancels the other pump, closes the model
\* socket, summarizes and notifies once and reaches DONE, and the entries
\* appended before the error stay in the transcript and are the text
\* given to summarization.
C15_PumpErrorLikeClose ==
    /\ \A c \in Conns :
          (pc[c] = "wait" /\ PumpFailed(c)) ~>
             (/\ pc[c] = "done" /\ openaiWs[c] = "closed"
              /\ t1[c] # "running" /\ t2[c] # "running"
              /\ sumCalls[c] = 1 /\ Len(notifyLog[c]) = 1
              /\ sumInput[c] = Lines(transcript[c]))
    /\ [](\A c \in Conns :
            PumpFailed(c) =>
               /\ pc[c] \in {"wait", "closing", "summarizing", "notifying", "done"}
               /\ transcript[c] = Completions(c)
               /\ sumCalls[c] > 0 => sumInput[c] = Lines(transcript[c]))
    /\ [][\A c \in Conns :
             PumpFailed(c) =>
                /\ IsPrefix(transcript[c], transcript'[c])
                /\ pc[c] = "wait" => pc'[c] \in {"wait", "closing"}
                /\ pc[c] = "closing" => pc'[c] \in {"closing", "summarizing"}
                /\ pc[c] = "summarizing" => pc'[c] \in {"summarizing", "notifying"}
                /\ pc[c] = "notifying" => pc'[c] \in {"notifying", "done"}]_vars

C15_Witness ==
    \E c \in Conns :
       /\ pc[c] = "done" /\ t2[c] = "failed" /\ t1[c] = "cancelled"
       /\ Len(transcript[c]) = 2
       /\ sumInput[c] = Lines(transcript[c])
       /\ llmResult[c] = "ok" /\ Len(notifyLog[c]) = 1

\* C16: the close of the model socket is attempted before the summary is
\* made, the summary (or a placeholder) exists before the notification is
\* made, the notification carries exactly that summary, and an error of
\* the close skips none of this.
C16_PostCallOrder ==
    /\ [][\A c \in Conns :
             /\ sumCalls'[c] # sumCalls[c] =>
                   /\ pc[c] = "summarizing" /\ openaiWs[c] = "closed"
                   /\ notifyLog'[c] = <<>>
             /\ notifyLog'[c] # notifyLog[c] =>
                   /\ sumCalls[c] = 1 /\ summary[c] # NoSummary
                   /\ summary'[c] = summary[c]
                   /\ Len(notifyLog'[c]) = 1
                   /\ notifyLog'[c][1].summary = summary[c]
             /\ closeRaised'[c] # closeRaised[c] => pc'[c] = "summarizing"]_vars
    /\ [](\A c \in Conns :
            pc[c] = "done" =>
               /\ openaiWs[c] = "closed" /\ sumCalls[c] = 1 /\ Len(notifyLog[c]) = 1
               /\ notifyLog[c][1].summary = summary[c]
               /\ llmResult[c] = "none" => summary[c] = EMPTY_PLACEHOLDER
               /\ llmResult[c] = "raised" => summary[c] = FAILURE_PLACEHOLDER
               /\ llmResult[c] = "ok" => summary[c] \in SummarySet)
    /\ \A c \in Conns : (t1[c] # "idle" /\ closeRaised[c]) ~> (pc[c] = "done")

C16_Witness ==
    \E c \in Conns :
       /\ pc[c] = "done" /\ closeRaised[c]
       /\ llmResult[c] = "ok"
       /\ notifyLog[c][1].summary \in SummarySet
       /\ notifyLog[c][1].result = "sent"

\* the inbound pump of c has processed a start event
StartSeen(c) == \E i \in 1..Len(twilioLog[c]) : IsStart(twilioLog[c][i])

\* C17: the stream id is unset until the inbound pump has processed a
\* start event, only a step of the inbound pump changes it, and once set
\* it never changes again.
C17_StreamIdWrittenOnce ==
    [][\A c \in Conns :
          /\ ~StartSeen(c)' => stream_sid'[c] = NoSid
          /\ stream_sid'[c] # stream_sid[c] => twilioLog'[c] # twilioLog[c]
          /\ stream_sid[c] # NoSid => stream_sid'[c] = stream_sid[c]]_vars

\* the parts of C17 without "written once"
C17_StreamIdSingleWriter ==
    [][\A c \in Conns :
          /\ ~StartSeen(c)' => stream_sid'[c] = NoSid
          /\ stream_sid'[c] # stream_sid[c] =>
                /\ twilioLog'[c] # twilioLog[c]
                /\ IsStart(twilioLog'[c][Len(twilioLog'[c])])
                /\ stream_sid'[c] = twilioLog'[c][Len(twilioLog'[c])].streamSid]_vars

\* the streamSid of the first start event of c
FirstStartSid(c) == SelectSeq(twilioLog[c], IsStart)[1].streamSid

\* C18: every media frame sent to the telephony side carries a set stream
\* id, the one of the call's start event.
C18_MediaCarriesStreamId ==
    \A c \in Conns :
       \A i \in 1..Len(twilioSent[c]) :
          /\ twilioSent[c][i].streamSid # NoSid
          /\ StartSeen(c)
          /\ twilioSent[c][i].streamSid = FirstStartSid(c)

\* C19: the text given to summarization is the whole transcript: no entry
\* is appended once the pending pump was cancelled, so none after the join,
\* also when the model pump was the one cancelled.
C19_NoEntryAfterJoin ==
    /\ [][\A c \in Conns :
             (Draining(c) \/ sumCalls[c] > 0) => transcript'[c] = transcript[c]]_vars
    /\ [](\A c \in Conns :
            sumCalls[c] > 0 =>
               /\ sumInput[c] = Lines(transcript[c])
               /\ transcript[c] = Completions(c)
               /\ t2[c] # "running")

C19_Witness ==
    \E c \in Conns :
       /\ pc[c] = "done" /\ sumCalls[c] = 1
       /\ t1[c] = "closed" /\ t2[c] = "cancelled"
       /\ Len(transcript[c]) = 2
       /\ sumInput[c] = Lines(transcript[c])

\* everything media_stream invocation c holds or has done
CallState(c) ==
    << pc[c], sid[c], settings[c], wsState[c], openaiWs[c], transcript[c],
       stream_sid[c], t1[c], t2[c], twilioLog[c], modelLog[c], openaiSent[c],
       twilioSent[c], sumCalls[c], sumInput[c], llmResult[c], summary[c],
       notifyLog[c], closeRaised[c] >>

\* C20: calls with different session ids are isolated: a step of one call
\* changes nothing of the other, the transcript and stream id of a call
\* change only when one of its own pumps handles a frame, the summary of a
\* call is made from its own transcript, and a failed summarization or
\* notification of one call leaves the other as it was, able to proceed.
C20_CallsIsolated ==
    /\ [][\A c, d \in Conns :
             (c # d /\ sid'[c] # sid'[d] /\ CallState(c)' # CallState(c)) =>
                /\ CallState(d)' = CallState(d)
                /\ ENABLED Summarize(d) <=> (ENABLED Summarize(d))'
                /\ ENABLED Notify(d) <=> (ENABLED Notify(d))']_vars
    /\ [][\A c \in Conns :
             /\ transcript'[c] # transcript[c] => modelLog'[c] # modelLog[c]
             /\ stream_sid'[c] # stream_sid[c] => twilioLog'[c] # twilioLog[c]]_vars
    /\ [](\A c \in Conns :
            sumCalls[c] > 0 =>
               /\ sumInput[c] = Lines(transcript[c])
               /\ transcript[c] = Completions(c))

\* one call's notification failed while the other, with another session
\* id, completed with a summary of its own transcript
C20_Witness ==
    /\ sid["c1"] = "s1" /\ sid["c2"] = "s2"
    /\ pc["c1"] = "done" /\ pc["c2"] = "done"
    /\ notifyLog["c1"][1].result = "failed"
    /\ transcript["c1"] = <<>>
    /\ Len(transcript["c2"]) = 1
    /\ llmResult["c2"] = "ok"
    /\ notifyLog["c2"][1].result = "sent"
    /\ notifyLog["c2"][1].to = Requests[2].email

====
